---------------------------- MODULE Spec2Model ----------------------------
(***************************************************************************)
(* Model of the pl-tracker backend proxy (the most complete server file):  *)
(* the TTL cache in front of the match-data provider, the article-search   *)
(* cache in front of the news provider, the match/team article search      *)
(* handlers and the cache-clear endpoint.                                  *)
(*                                                                         *)
(* Conventions.                                                            *)
(*  - A JSON value is modelled by its JSON text: the JavaScript null is    *)
(*    the string "null", the number 0 is "0", an object is "{...}".        *)
(*  - A timestamp is a number of milliseconds; the JavaScript null in a    *)
(*    timestamp field is NullTs.  The code reads a timestamp only through  *)
(*    !timestamp and through Date.now() - timestamp, which treat null and  *)
(*    0 alike, and the clock is never 0.                                   *)
(*  - An async handler is cut at its awaits of network I/O: one action     *)
(*    runs the handler up to the outbound call, one runs it from the       *)
(*    arrival of the provider's answer to the next outbound call or to     *)
(*    the HTTP response.                                                   *)
(***************************************************************************)
EXTENDS Integers, Sequences, FiniteSets, Bags, TLC

(***************************************************************************)
(* Bounds of the model.                                                    *)
(***************************************************************************)
\* concurrent match-data requests in flight
MaxReq == 2
\* clock ticks a behaviour may take
MaxTicks == 4
\* milliseconds per clock tick in the match-data specification
TickMs == 100000

(***************************************************************************)
(* Program constants.                                                      *)
(***************************************************************************)
NullTs == 0
\* default TTL of a slot created by getCachedOrFetch
DefaultTtl == 300000
\* TTL of an article-search entry
GuardianTtl == 1800000

NamedKeys ==
  {"standings", "matches", "scorers", "teams", "competition",
   "standingsLast", "matchesLast"}

\* the ttl column of the cache configuration
NamedTtl(k) ==
  CASE k = "standings"     -> 300000
    [] k = "matches"       -> 180000
    [] k = "scorers"       -> 600000
    [] k = "teams"         -> 3600000
    [] k = "competition"   -> 86400000
    [] k = "standingsLast" -> 3600000
    [] k = "matchesLast"   -> 3600000

\* the cache object as the module creates it (guardianArticles is the
\* variable guardianArticles)
InitialCache ==
  [k \in NamedKeys |-> [data |-> "null", timestamp |-> NullTs, ttl |-> NamedTtl(k)]]

\* the fixed endpoint of each handler that has one
EndpointOf(k) ==
  CASE k = "standings"   -> "/competitions/PL/standings"
    [] k = "matches"     -> "/competitions/PL/matches"
    [] k = "scorers"     -> "/competitions/PL/scorers"
    [] k = "teams"       -> "/competitions/PL/teams"
    [] k = "competition" -> "/competitions/PL"
    [] OTHER             -> "/"

\* the dynamic key of GET /api/head2head/:matchId
Head2HeadKey(matchId) == "head2head-" \o ToString(matchId)

\* the inputs of the modelled requests: the named resources asked for and
\* the match ids of the head-to-head requests
RequestedNamed == {"standings"}
MatchIds == {1}
Head2HeadKeys == {Head2HeadKey(m) : m \in MatchIds}
RequestKeys == RequestedNamed \cup Head2HeadKeys

\* every key isCacheValid is asked about
AllKeys == NamedKeys \cup Head2HeadKeys \cup {"guardianArticles"}

(***************************************************************************)
(* What the match-data provider can answer: JSON bodies (two objects and   *)
(* two falsy JSON values) and the failures of fetchFootballData.           *)
(***************************************************************************)
TruthyPayloads == {"{\"v\":1}", "{\"v\":2}"}
FalsyPayloads == {"0", "null"}
Payloads == TruthyPayloads \cup FalsyPayloads

\* JavaScript truthiness of a JSON value (as used by !x)
Truthy(json) == json \notin {"null", "0", "false", "\"\""}

\* HTTP statuses the provider can answer with, and a network failure
Statuses == {200, 403, 429, 500}

VARIABLES
  now,               \* Date.now()
  cache,             \* the cache object without guardianArticles
  guardianArticles,  \* cache.guardianArticles
  inflight,          \* the bag of getCachedOrFetch calls awaiting
                     \* fetchFootballData
  guardianApiKey,    \* whether process.env.GUARDIAN_API_KEY is set
  fixture,           \* the query parameters the article requests of this
                     \* behaviour carry: <<homeTeam, awayTeam, type>>
  searches,          \* the bag of article requests awaiting a
                     \* searchGuardianArticles call
  firstCall,         \* history: the first searchGuardianArticles call of the
                     \* behaviour, its cache key and the time it was made
  last               \* the step just taken: what the caller observed

vars == <<now, cache, guardianArticles, inflight, guardianApiKey, fixture,
          searches, firstCall, last>>

searchVars == <<guardianApiKey, fixture, searches, firstCall>>

NoEvent == [op |-> "none"]

\* the empty object {}
EmptyMap == [x \in {} |-> x]

(***************************************************************************)
(* isCacheValid(cacheKey)                                                  *)
(***************************************************************************)
\* a validity check that forgets the ttl comparison
EntryValidNoTtl(entry, t) ==
  /\ Truthy(entry.data)
  /\ entry.timestamp # NullTs

EntryValid(entry, t) ==
  /\ Truthy(entry.data)
  /\ entry.timestamp # NullTs
  /\ t - entry.timestamp < entry.ttl

isCacheValidAt(c, cacheKey, t) ==
  IF cacheKey = "guardianArticles"
    THEN FALSE   \* the article map has no data field of its own
    ELSE /\ cacheKey \in DOMAIN c
         /\ EntryValid(c[cacheKey], t)

isCacheValid(cacheKey) == isCacheValidAt(cache, cacheKey, now)

(***************************************************************************)
(* fetchFootballData: the outcome for an HTTP status or a network failure. *)
(***************************************************************************)
\* a body response.json() rejects
UnparseableBodies == {"<html>"}

\* response.json(): the body parses as JSON
Parses(body) == body \notin UnparseableBodies

\* a fetchFootballData without its checks of 403 and 429
fetchFootballDataGeneric(status, statusText, body, networkDown) ==
  IF networkDown
    THEN [ok |-> FALSE, message |-> "network: request failed"]
  ELSE IF ~(status >= 200 /\ status <= 299)
    THEN [ok |-> FALSE,
          message |-> "API returned " \o ToString(status) \o ": " \o statusText]
  ELSE IF ~Parses(body)
    THEN [ok |-> FALSE, message |-> "Unexpected token in JSON"]
  ELSE [ok |-> TRUE, data |-> body]

fetchFootballData(status, statusText, body, networkDown) ==
  IF networkDown
    THEN [ok |-> FALSE, message |-> "network: request failed"]
  ELSE IF status = 403
    THEN [ok |-> FALSE, message |-> "API key required or rate limit exceeded"]
  ELSE IF status = 429
    THEN [ok |-> FALSE, message |-> "Rate limit exceeded"]
  ELSE IF ~(status >= 200 /\ status <= 299)
    THEN [ok |-> FALSE,
          message |-> "API returned " \o ToString(status) \o ": " \o statusText]
  ELSE IF ~Parses(body)
    THEN [ok |-> FALSE, message |-> "Unexpected token in JSON"]
  ELSE [ok |-> TRUE, data |-> body]

(***************************************************************************)
(* getCachedOrFetch, up to the await of fetchFootballData.                 *)
(***************************************************************************)
\* a getCachedOrFetch that joins a fetch already in flight for its key
StartAtCoalescing(cacheKey, endpoint, stamp) ==
  /\ BagCardinality(inflight) < MaxReq
  /\ IF isCacheValid(cacheKey)
       THEN /\ last' = [op |-> "hit", key |-> cacheKey, status |-> 200,
                         body |-> cache[cacheKey].data,
                         endpoint |-> endpoint]
            /\ UNCHANGED inflight
       ELSE /\ inflight' =
                 IF \E c \in BagToSet(inflight) : c.key = cacheKey
                   THEN inflight
                   ELSE inflight (+) SetToBag({[key |-> cacheKey,
                                                endpoint |-> endpoint,
                                                issuedAt |-> stamp]})
            /\ last' = [op |-> "miss", key |-> cacheKey,
                         endpoint |-> endpoint]
  /\ UNCHANGED <<now, cache, guardianArticles, searchVars>>

\* getCachedOrFetch to its await; stamp is what the model remembers of the
\* time the upstream call was issued (the code keeps no such record)
StartAt(cacheKey, endpoint, stamp) ==
  /\ BagCardinality(inflight) < MaxReq
  /\ IF isCacheValid(cacheKey)
       THEN /\ last' = [op |-> "hit", key |-> cacheKey, status |-> 200,
                         body |-> cache[cacheKey].data,
                         endpoint |-> endpoint]
            /\ UNCHANGED inflight
       ELSE /\ inflight' = inflight (+) SetToBag({[key |-> cacheKey,
                                                    endpoint |-> endpoint,
                                                    issuedAt |-> stamp]})
            /\ last' = [op |-> "miss", key |-> cacheKey,
                         endpoint |-> endpoint]
  /\ UNCHANGED <<now, cache, guardianArticles, searchVars>>

\* the call without a remembered time of issue
Start(cacheKey, endpoint) == StartAt(cacheKey, endpoint, NullTs)

\* the store of getCachedOrFetch after a successful fetch
StoreFetched(c, cacheKey, data, t) ==
  LET c1 == IF cacheKey \in DOMAIN c
              THEN c
              ELSE [k \in DOMAIN c \cup {cacheKey} |->
                      IF k = cacheKey
                        THEN [data |-> "null", timestamp |-> NullTs,
                              ttl |-> DefaultTtl]
                        ELSE c[k]]
  IN [c1 EXCEPT ![cacheKey] = [@ EXCEPT !.data = data, !.timestamp = t]]

\* a getCachedOrFetch that caches a failure as an empty value
CacheAfterFetchNegative(c, cacheKey, res, t) ==
  IF res.ok
    THEN StoreFetched(c, cacheKey, res.data, t)
    ELSE StoreFetched(c, cacheKey, "null", t)

\* lines 41-50 of getCachedOrFetch: a fetch that throws skips the store
CacheAfterFetch(c, cacheKey, res, t) ==
  IF res.ok THEN StoreFetched(c, cacheKey, res.data, t) ELSE c

\* a getCachedOrFetch that calls the provider again after a failure
CompleteWithRetry(call, status, body, networkDown) ==
  /\ BagIn(call, inflight)
  /\ LET cacheKey == call.key
         res == fetchFootballData(status, "reason", body, networkDown)
     IN /\ IF res.ok
          THEN /\ last' = [op |-> "fetched", key |-> cacheKey,
                            status |-> 200, body |-> res.data,
                            issuedAt |-> call.issuedAt,
                            endpoint |-> call.endpoint]
               /\ inflight' = inflight (-) SetToBag({call})
          ELSE /\ last' = [op |-> "failed", key |-> cacheKey,
                            status |-> 500, details |-> res.message]
               /\ inflight' = inflight
        /\ cache' = CacheAfterFetch(cache, cacheKey, res, now)
  /\ UNCHANGED <<now, guardianArticles, searchVars>>

(***************************************************************************)
(* getCachedOrFetch from the arrival of the provider's answer: a success   *)
(* is stored and returned (the handler answers 200), a failure is thrown   *)
(* on to the handler, which answers 500 with the message.                  *)
(***************************************************************************)
Complete(call, status, body, networkDown) ==
  /\ BagIn(call, inflight)
  /\ LET cacheKey == call.key
         res == fetchFootballData(status, "reason", body, networkDown)
     IN /\ IF res.ok
          THEN last' = [op |-> "fetched", key |-> cacheKey,
                        status |-> 200, body |-> res.data,
                        issuedAt |-> call.issuedAt,
                            endpoint |-> call.endpoint]
          ELSE last' = [op |-> "failed", key |-> cacheKey,
                        status |-> 500, details |-> res.message]
        /\ cache' = CacheAfterFetch(cache, cacheKey, res, now)
  /\ inflight' = inflight (-) SetToBag({call})
  /\ UNCHANGED <<now, guardianArticles, searchVars>>

(***************************************************************************)
(* POST /api/cache/clear                                                   *)
(***************************************************************************)
\* a clear that resets the pre-registered entries only
ClearedCacheNamedOnly(c) ==
  [k \in DOMAIN c |->
     IF k \in NamedKeys
       THEN [c[k] EXCEPT !.data = "null", !.timestamp = NullTs]
       ELSE c[k]]

\* a clear that replaces every slot by a fresh one with the default ttl
ClearedCacheFreshSlots(c) ==
  [k \in DOMAIN c |-> [data |-> "null", timestamp |-> NullTs, ttl |-> DefaultTtl]]

ClearedCache(c) ==
  [k \in DOMAIN c |-> [c[k] EXCEPT !.data = "null", !.timestamp = NullTs]]

\* a clear that resets the slots and keeps the article-search entries
ClearCacheKeepsArticles ==
  /\ cache' = ClearedCache(cache)
  /\ guardianArticles' = guardianArticles
  /\ last' = [op |-> "clear",
              reset |-> {k \in DOMAIN cache : cache[k].timestamp # NullTs},
              dropped |-> DOMAIN guardianArticles]
  /\ UNCHANGED <<now, inflight, searchVars>>

ClearCache ==
  /\ cache' = ClearedCache(cache)
  /\ guardianArticles' = EmptyMap
  /\ last' = [op |-> "clear",
              reset |-> {k \in DOMAIN cache : cache[k].timestamp # NullTs},
              dropped |-> DOMAIN guardianArticles]
  /\ UNCHANGED <<now, inflight, searchVars>>

(***************************************************************************)
(* The clock.                                                              *)
(***************************************************************************)
Tick(step, limit) ==
  /\ now + step <= limit
  /\ now' = now + step
  /\ last' = [op |-> "tick"]
  /\ UNCHANGED <<cache, guardianArticles, inflight, searchVars>>

(***************************************************************************)
(* The match-data specification: requests for the named resources and for  *)
(* head-to-head data, overlapping, with clears and the passing of time.    *)
(***************************************************************************)
Init ==
  /\ now = TickMs
  /\ cache = InitialCache
  /\ guardianArticles = EmptyMap
  /\ inflight = EmptyBag
  /\ guardianApiKey = TRUE
  /\ fixture = <<"Arsenal", "Chelsea", "report">>
  /\ searches = EmptyBag
  /\ firstCall = << >>
  /\ last = NoEvent

StartResource == \E k \in RequestedNamed : Start(k, EndpointOf(k))

StartHead2Head ==
  \E m \in MatchIds :
    Start(Head2HeadKey(m), "/matches/" \o ToString(m) \o "/head2head?limit=10")

ProviderAnswers ==
  \E call \in BagToSet(inflight), status \in Statuses, body \in Payloads :
    Complete(call, status, body, FALSE)

NetworkFails == \E call \in BagToSet(inflight) : Complete(call, 0, "null", TRUE)

TimePasses == Tick(TickMs, TickMs * (1 + MaxTicks))

Next ==
  \/ StartResource
  \/ StartHead2Head
  \/ ProviderAnswers
  \/ NetworkFails
  \/ ClearCache
  \/ TimePasses

Spec == Init /\ [][Next]_vars

(***************************************************************************)
(* The news provider side: team name variations, the article-search cache  *)
(* and the match-article search.                                           *)
(***************************************************************************)
\* concurrent article requests in flight
MaxSearch == 1
\* clock ticks a behaviour of the article-search specification may take
MaxSearchTicks == 2
\* milliseconds per clock tick in the article-search specification
SearchTickMs == 900000

\* an optional value: None is the JavaScript null or undefined
None == << >>
Some(x) == <<x>>

TEAM_NAME_VARIATIONS ==
  [t \in {"Man City", "Man Utd", "Spurs", "Newcastle", "West Ham", "Wolves",
          "Brighton", "Nott'm Forest", "Leicester", "Bournemouth",
          "Crystal Palace", "Ipswich", "Everton", "Arsenal", "Liverpool",
          "Chelsea", "Aston Villa", "Fulham", "Brentford", "Southampton"} |->
     CASE t = "Man City"       -> <<"Manchester City", "Man City">>
       [] t = "Man Utd"        -> <<"Manchester United", "Man Utd", "Manchester Utd">>
       [] t = "Spurs"          -> <<"Tottenham", "Spurs", "Tottenham Hotspur">>
       [] t = "Newcastle"      -> <<"Newcastle", "Newcastle United">>
       [] t = "West Ham"       -> <<"West Ham", "West Ham United">>
       [] t = "Wolves"         -> <<"Wolves", "Wolverhampton", "Wolverhampton Wanderers">>
       [] t = "Brighton"       -> <<"Brighton", "Brighton & Hove Albion",
                                    "Brighton and Hove Albion">>
       [] t = "Nott'm Forest"  -> <<"Nottingham Forest", "Nott'm Forest", "Forest">>
       [] t = "Leicester"      -> <<"Leicester", "Leicester City">>
       [] t = "Bournemouth"    -> <<"Bournemouth", "AFC Bournemouth">>
       [] t = "Crystal Palace" -> <<"Crystal Palace", "Palace">>
       [] t = "Ipswich"        -> <<"Ipswich", "Ipswich Town">>
       [] t = "Aston Villa"    -> <<"Aston Villa", "Villa">>
       [] OTHER                -> <<t>>]

\* names TEAM_NAME_VARIATIONS[name] finds on Object.prototype: each is a
\* function, seen by its callers through .length and [i]
InheritedKeys == {"constructor", "hasOwnProperty", "toString", "valueOf"}

\* the .length of the inherited function
InheritedLength(name) == IF name \in {"constructor", "hasOwnProperty"} THEN 1 ELSE 0

\* the inherited function as its callers read it: .length elements, each
\* undefined (written "undefined", as a template literal prints it)
Inherited(name) == [i \in 1..InheritedLength(name) |-> "undefined"]

getTeamVariations(teamName) ==
  IF teamName \in DOMAIN TEAM_NAME_VARIATIONS
    THEN TEAM_NAME_VARIATIONS[teamName]
  ELSE IF teamName \in InheritedKeys
    THEN Inherited(teamName)
  ELSE <<teamName>>

\* variations[i], with i counted from 0 as in the code
At(variations, i) ==
  IF i + 1 <= Len(variations) THEN variations[i + 1] ELSE "undefined"

\* the query parameters the modelled article requests carry: in the
\* article-search specification (overlapping requests) ...
Fixtures ==
  {<<"Man City", "Arsenal", "report">>, <<"Arsenal", "Chelsea", "preview">>}
\* ... and in the match-search specification (one request at a time)
MatchFixtures ==
  Fixtures \cup
  {<<"Man City", "Man Utd", "report">>, <<"Newcastle", "Burnley", "preview">>}

\* what the news provider can put in the response field of its answer
SearchResponses ==
  {[results |-> << >>, total |-> 0],
   [results |-> <<"a1", "a2">>, total |-> 12]}

\* the JSON bodies of the news provider: with a response field, or without
GuardianBodies ==
  {[response |-> Some(r)] : r \in SearchResponses} \cup {[response |-> None]}

GuardianStatuses == {200, 500}

\* the tag of GET /api/guardian/match
TagOf(type) ==
  IF type = "preview"
    THEN "tone/minutebyminute,football/series/match-previews"
    ELSE "tone/matchreports"

\* JSON.stringify(searchOptions) of GET /api/guardian/match
MatchOptionsJson(type) ==
  "{\"tag\":\"" \o TagOf(type) \o "\",\"page-size\":5,\"order-by\":\"newest\"}"

\* the cache key of searchGuardianArticles
SearchCacheKey(query, optionsJson) == query \o "-" \o optionsJson

\* `"${a}" AND "${b}"`
Quoted(a, b) == "\"" \o a \o "\" AND \"" \o b \o "\""

\* a fallback to the last variation instead of the first
AlternativeLast(variations, i) ==
  IF At(variations, i) \notin {"", "undefined"}
    THEN At(variations, i)
    ELSE At(variations, Len(variations) - 1)

\* variations[i] || variations[0], with i counted from 0 as in the code
Alternative(variations, i) ==
  IF At(variations, i) \notin {"", "undefined"}
    THEN At(variations, i)
    ELSE At(variations, 0)

MaxOf(a, b) == IF a >= b THEN a ELSE b

(***************************************************************************)
(* The strategies GET /api/guardian/match goes through for a fixture, in   *)
(* the order of the handler's code: each with the name it reports and the  *)
(* query it searches.                                                      *)
(***************************************************************************)
MatchStrategies(homeTeam, awayTeam) ==
  LET hv == getTeamVariations(homeTeam)
      av == getTeamVariations(awayTeam)
      exact == <<[name |-> "exact", query |-> Quoted(homeTeam, awayTeam)]>>
      full ==
        IF (Len(hv) > 1 \/ Len(av) > 1) /\ (At(hv, 0) # homeTeam \/ At(av, 0) # awayTeam)
          THEN <<[name |-> "full-names", query |-> Quoted(At(hv, 0), At(av, 0))]>>
          ELSE << >>
      unquoted == <<[name |-> "unquoted", query |-> At(hv, 0) \o " " \o At(av, 0)]>>
      variations ==
        [i \in 1..(MaxOf(Len(hv), Len(av)) - 1) |->
           [name |-> "variation-" \o ToString(i),
            query |-> Quoted(Alternative(hv, i), Alternative(av, i))]]
  IN exact \o full \o unquoted \o variations

\* the calls of searchGuardianArticles the handler has ahead of it for its
\* query parameters: the strategies with the cache key of each
MatchPlan(homeTeam, awayTeam, type) ==
  LET strategies == MatchStrategies(homeTeam, awayTeam)
  IN [i \in 1..Len(strategies) |->
        [name |-> strategies[i].name,
         query |-> strategies[i].query,
         cacheKey |-> SearchCacheKey(strategies[i].query, MatchOptionsJson(type))]]

\* the cache check of searchGuardianArticles
GuardianHit(ga, cacheKey, t) ==
  /\ cacheKey \in DOMAIN ga
  /\ ga[cacheKey].timestamp # NullTs
  /\ t - ga[cacheKey].timestamp < GuardianTtl

\* a fetchGuardianData without its catch: a transport error is thrown on
fetchGuardianDataThrows(status, body, networkDown) ==
  IF networkDown
    THEN [threw |-> TRUE, data |-> None]
  ELSE IF ~(status >= 200 /\ status <= 299)
    THEN [threw |-> FALSE, data |-> None]
  ELSE [threw |-> FALSE, data |-> Some(body)]

(***************************************************************************)
(* fetchGuardianData from the arrival of the provider's answer (the check  *)
(* of the credential comes before the call, in EnterSearch): null on a     *)
(* non-success status and on a transport error, never a throw.             *)
(***************************************************************************)
fetchGuardianData(status, body, networkDown) ==
  IF networkDown
    THEN [threw |-> FALSE, data |-> None]
  ELSE IF ~(status >= 200 /\ status <= 299)
    THEN [threw |-> FALSE, data |-> None]
  ELSE [threw |-> FALSE, data |-> Some(body)]

\* what searchGuardianArticles returns for the data of fetchGuardianData
SearchResult(fetched) ==
  IF fetched.data # None /\ fetched.data[1].response # None
    THEN fetched.data[1].response
    ELSE None

\* a searchGuardianArticles that caches "no data" as an empty response
GuardianStoreNegative(ga, cacheKey, fetched, startedAt) ==
  LET entry == IF SearchResult(fetched) # None
                 THEN [data |-> SearchResult(fetched)[1], timestamp |-> startedAt]
                 ELSE [data |-> [results |-> << >>, total |-> 0],
                       timestamp |-> startedAt]
  IN [k \in DOMAIN ga \cup {cacheKey} |-> IF k = cacheKey THEN entry ELSE ga[k]]

\* the store of searchGuardianArticles: only a body with a response field
\* is stored, under the time the call began
GuardianStore(ga, cacheKey, fetched, startedAt) ==
  IF SearchResult(fetched) # None
    THEN [k \in DOMAIN ga \cup {cacheKey} |->
            IF k = cacheKey
              THEN [data |-> SearchResult(fetched)[1], timestamp |-> startedAt]
              ELSE ga[k]]
    ELSE ga

\* articles && articles.results && articles.results.length > 0
Found(result) == result # None /\ Len(result[1].results) > 0

\* a search that calls the provider without the credential
EnterSearchNoKeyCheck(s, idx, ga, t, hasKey) ==
  LET cacheKey == s.plan[idx].cacheKey
  IN IF GuardianHit(ga, cacheKey, t)
       THEN [s EXCEPT !.idx = idx, !.wait = FALSE, !.startedAt = NullTs,
                      !.ret = Some(ga[cacheKey].data)]
     ELSE [s EXCEPT !.idx = idx, !.wait = TRUE, !.startedAt = t, !.ret = None]

\* a cache check that never hits
EnterSearchNoCache(s, idx, ga, t, hasKey) ==
  IF ~hasKey
    THEN [s EXCEPT !.idx = idx, !.wait = FALSE, !.startedAt = NullTs,
                   !.ret = None]
    ELSE [s EXCEPT !.idx = idx, !.wait = TRUE, !.startedAt = t, !.ret = None]

(***************************************************************************)
(* searchGuardianArticles up to its await, called by the request s for its *)
(* strategy idx at time t: a hit resolves with the cached data, a missing  *)
(* credential with null, and otherwise the provider is called.  The time   *)
(* the call took as `now` is kept while the call waits for the provider    *)
(* (the store reads it); a call that resolves at once never reads it again.*)
(***************************************************************************)
EnterSearch(s, idx, ga, t, hasKey) ==
  LET cacheKey == s.plan[idx].cacheKey
  IN IF GuardianHit(ga, cacheKey, t)
       THEN [s EXCEPT !.idx = idx, !.wait = FALSE, !.startedAt = NullTs,
                      !.ret = Some(ga[cacheKey].data)]
     ELSE IF ~hasKey
       THEN [s EXCEPT !.idx = idx, !.wait = FALSE, !.startedAt = NullTs,
                      !.ret = None]
     ELSE [s EXCEPT !.idx = idx, !.wait = TRUE, !.startedAt = t, !.ret = None]

\* what a step records of the call it entered
Entered(s) ==
  LET strategy == s.plan[s.idx]
  IN [strategy |-> strategy.name,
      query |-> strategy.query,
      cacheKey |-> strategy.cacheKey,
      source |-> IF s.wait THEN "provider"
                 ELSE IF s.ret # None THEN "cache" ELSE "nokey",
      ret |-> s.ret]

\* a handler that goes on to the next strategy although articles were found
MatchContinueNoStop(s, resolved, ga, t, hasKey) ==
  LET strategies == s.plan
  IN IF resolved.threw
       THEN [next |-> None,
             response |-> Some([status |-> 500, success |-> FALSE,
                                articles |-> << >>, total |-> 0,
                                searchStrategy |-> "error"])]
     ELSE IF s.idx < Len(strategies)
       THEN [next |-> Some(EnterSearch(s, s.idx + 1, ga, t, hasKey)),
             response |-> None]
     ELSE IF Found(resolved.result)
       THEN [next |-> None,
             response |-> Some([status |-> 200, success |-> TRUE,
                                articles |-> resolved.result[1].results,
                                total |-> resolved.result[1].total,
                                searchStrategy |-> strategies[s.idx].name])]
     ELSE [next |-> None,
           response |-> Some([status |-> 200, success |-> TRUE,
                              articles |-> << >>, total |-> 0,
                              searchStrategy |-> "none"])]

\* a handler that starts over with the first strategy when the last one
\* found nothing
MatchContinueRestarts(s, resolved, ga, t, hasKey) ==
  LET strategies == s.plan
  IN IF resolved.threw
       THEN [next |-> None,
             response |-> Some([status |-> 500, success |-> FALSE,
                                articles |-> << >>, total |-> 0,
                                searchStrategy |-> "error"])]
     ELSE IF Found(resolved.result)
       THEN [next |-> None,
             response |-> Some([status |-> 200, success |-> TRUE,
                                articles |-> resolved.result[1].results,
                                total |-> resolved.result[1].total,
                                searchStrategy |-> strategies[s.idx].name])]
     ELSE IF s.idx < Len(strategies)
       THEN [next |-> Some(EnterSearch(s, s.idx + 1, ga, t, hasKey)),
             response |-> None]
     ELSE [next |-> Some(EnterSearch(s, 1, ga, t, hasKey)),
           response |-> None]

(***************************************************************************)
(* GET /api/guardian/match from the return of the searchGuardianArticles   *)
(* call of strategy s.idx to the next such call or to the response.        *)
(***************************************************************************)
MatchContinue(s, resolved, ga, t, hasKey) ==
  LET strategies == s.plan
  IN IF resolved.threw
       THEN [next |-> None,
             response |-> Some([status |-> 500, success |-> FALSE,
                                articles |-> << >>, total |-> 0,
                                searchStrategy |-> "error"])]
     ELSE IF Found(resolved.result)
       THEN [next |-> None,
             response |-> Some([status |-> 200, success |-> TRUE,
                                articles |-> resolved.result[1].results,
                                total |-> resolved.result[1].total,
                                searchStrategy |-> strategies[s.idx].name])]
     ELSE IF s.idx < Len(strategies)
       THEN [next |-> Some(EnterSearch(s, s.idx + 1, ga, t, hasKey)),
             response |-> None]
     ELSE [next |-> None,
           response |-> Some([status |-> 200, success |-> TRUE,
                              articles |-> << >>, total |-> 0,
                              searchStrategy |-> "none"])]

\* the step of a request: the call that returned, what the handler did next
MatchStep(s, resolved, ga) ==
  LET out == MatchContinue(s, resolved, ga, now, guardianApiKey)
      rest == searches (-) SetToBag({s})
  IN /\ searches' = IF out.next # None
                      THEN rest (+) SetToBag({out.next[1]})
                      ELSE rest
     /\ last' = [op |-> IF out.response # None THEN "matchResponse" ELSE "matchSearch",
                 resolved |-> Some([strategy |-> Entered(s).strategy,
                                    outcome |-> resolved.outcome,
                                    result |-> resolved.result]),
                 entered |-> IF out.next # None THEN Some(Entered(out.next[1]))
                             ELSE None,
                 response |-> out.response]

\* GET /api/guardian/match from the request to its first await
MatchRequest ==
  /\ BagCardinality(searches) < MaxSearch
  /\ fixture[1] # "" /\ fixture[2] # ""
  /\ LET s == EnterSearch([plan |-> MatchPlan(fixture[1], fixture[2], fixture[3]),
                           idx |-> 1, wait |-> FALSE,
                           startedAt |-> NullTs, ret |-> None],
                          1, guardianArticles, now, guardianApiKey)
     IN /\ searches' = searches (+) SetToBag({s})
        /\ firstCall' = IF firstCall = << >>
                          THEN <<[cacheKey |-> Entered(s).cacheKey, at |-> now]>>
                          ELSE firstCall
        /\ last' = [op |-> "matchRequest",
                    resolved |-> None, entered |-> Some(Entered(s)),
                    response |-> None]
  /\ UNCHANGED <<now, cache, guardianArticles, inflight, guardianApiKey, fixture>>

\* the await of a call that a hit or a missing credential resolved at once
SearchResumes ==
  \E s \in BagToSet(searches) :
    /\ ~s.wait
    /\ MatchStep(s, [threw |-> FALSE, result |-> s.ret, outcome |-> "resolved"],
                 guardianArticles)
    /\ UNCHANGED <<now, cache, guardianArticles, inflight, guardianApiKey, fixture,
                   firstCall>>

\* the provider's answer to the call a request waits for
GuardianReturns(s, status, body, networkDown) ==
  LET fetched == fetchGuardianData(status, body, networkDown)
      cacheKey == Entered(s).cacheKey
      ga == GuardianStore(guardianArticles, cacheKey, fetched, s.startedAt)
  IN /\ s.wait
     /\ guardianArticles' = ga
     /\ MatchStep(s, [threw |-> fetched.threw,
                      result |-> IF fetched.threw THEN None ELSE SearchResult(fetched),
                      outcome |-> IF networkDown THEN "transport"
                                  ELSE IF status # 200 THEN "status"
                                  ELSE "ok"],
                  ga)
     /\ UNCHANGED <<now, cache, inflight, guardianApiKey, fixture, firstCall>>

GuardianAnswers ==
  \E s \in BagToSet(searches), status \in GuardianStatuses, body \in GuardianBodies :
    GuardianReturns(s, status, body, FALSE)

GuardianNetworkFails ==
  \E s \in BagToSet(searches) : GuardianReturns(s, 0, [response |-> None], TRUE)

SearchTimePasses == Tick(SearchTickMs, SearchTickMs * (1 + MaxSearchTicks))

(***************************************************************************)
(* The article-search specification: match-article requests for one        *)
(* fixture, overlapping, with clears and the passing of time, with or      *)
(* without the news provider's credential.                                 *)
(***************************************************************************)
SearchInitWith(fixtures) ==
  /\ now = SearchTickMs
  /\ cache = InitialCache
  /\ guardianArticles = EmptyMap
  /\ inflight = EmptyBag
  /\ guardianApiKey \in BOOLEAN
  /\ fixture \in fixtures
  /\ searches = EmptyBag
  /\ firstCall = << >>
  /\ last = NoEvent

SearchInit == SearchInitWith(Fixtures)

SearchNext ==
  \/ MatchRequest
  \/ SearchResumes
  \/ GuardianAnswers
  \/ GuardianNetworkFails
  \/ ClearCache
  \/ SearchTimePasses

SearchSpec == SearchInit /\ [][SearchNext]_vars

(***************************************************************************)
(* The match-search specification: match-article requests one after the    *)
(* other, for fixtures that go through up to five strategies.              *)
(***************************************************************************)
MatchInit == SearchInitWith(MatchFixtures)

MatchRequestAlone == searches = EmptyBag /\ MatchRequest

MatchNext ==
  \/ MatchRequestAlone
  \/ SearchResumes
  \/ GuardianAnswers
  \/ GuardianNetworkFails
  \/ ClearCache
  \/ SearchTimePasses

MatchSpec == MatchInit /\ [][MatchNext]_vars

\* the match-search specification at one instant, with its scheduling: a
\* call that resolved at once resumes its handler, and the fetch of a
\* waiting call settles, with an answer or with a transport error
MatchFairNext ==
  \/ MatchRequestAlone
  \/ SearchResumes
  \/ GuardianAnswers
  \/ GuardianNetworkFails
  \/ ClearCache

MatchFairSpec ==
  /\ MatchInit
  /\ [][MatchFairNext]_vars
  /\ WF_vars(SearchResumes)
  /\ WF_vars(GuardianAnswers \/ GuardianNetworkFails)

(***************************************************************************)
(* The single-search specification: match-article requests one after the   *)
(* other at one instant and with no clear, so that the article-search      *)
(* cache only grows while a request goes through its strategies.           *)
(***************************************************************************)
MatchOnceNext ==
  \/ MatchRequestAlone
  \/ SearchResumes
  \/ GuardianAnswers
  \/ GuardianNetworkFails

MatchOnceSpec == MatchInit /\ [][MatchOnceNext]_vars

(***************************************************************************)
(* GET /api/guardian/team, and the requests the two article routes reject. *)
(***************************************************************************)
\* the team parameter of a request: "" stands for a missing one
TeamParams == {"", "Arsenal", "Man City"}

\* the names a rejected match request can carry
MatchParams == {"", "Arsenal"}

\* JSON.stringify of the options of the team route
TeamOptionsJson == "{\"page-size\":5,\"order-by\":\"newest\"}"

\* the one call of searchGuardianArticles of the team route
TeamPlan(team) ==
  LET query == "\"" \o team \o "\""
  IN <<[name |-> "team", query |-> query,
        cacheKey |-> SearchCacheKey(query, TeamOptionsJson)]>>

\* a team route that does not check its parameter
TeamRequestUnchecked ==
  /\ BagCardinality(searches) < MaxSearch
  /\ \E team \in TeamParams :
       LET s == EnterSearch([plan |-> TeamPlan(team), idx |-> 1, wait |-> FALSE,
                             startedAt |-> NullTs, ret |-> None],
                            1, guardianArticles, now, guardianApiKey)
       IN /\ searches' = searches (+) SetToBag({s})
          /\ last' = IF team = ""
                       THEN [op |-> "badRequest", route |-> "team", status |-> 400]
                       ELSE [op |-> "teamRequest", team |-> team,
                             resolved |-> None, entered |-> Some(Entered(s)),
                             response |-> None]
  /\ UNCHANGED <<now, cache, guardianArticles, inflight, guardianApiKey, fixture,
                 firstCall>>

\* GET /api/guardian/team from the request to its await: 400 for a missing
\* team, and else the search of the quoted team name
TeamRequest ==
  /\ BagCardinality(searches) < MaxSearch
  /\ \E team \in TeamParams :
       IF team = ""
         THEN /\ last' = [op |-> "badRequest", route |-> "team", status |-> 400]
              /\ UNCHANGED searches
         ELSE LET s == EnterSearch([plan |-> TeamPlan(team), idx |-> 1,
                                    wait |-> FALSE, startedAt |-> NullTs,
                                    ret |-> None],
                                   1, guardianArticles, now, guardianApiKey)
              IN /\ searches' = searches (+) SetToBag({s})
                 /\ last' = [op |-> "teamRequest", team |-> team,
                             resolved |-> None, entered |-> Some(Entered(s)),
                             response |-> None]
  /\ UNCHANGED <<now, cache, guardianArticles, inflight, guardianApiKey, fixture,
                 firstCall>>

\* GET /api/guardian/match with homeTeam or awayTeam missing: 400
MatchRequestRejected ==
  /\ \E homeTeam \in MatchParams, awayTeam \in MatchParams :
       /\ homeTeam = "" \/ awayTeam = ""
       /\ last' = [op |-> "badRequest", route |-> "match", status |-> 400]
  /\ UNCHANGED <<now, cache, guardianArticles, inflight, searchVars>>

\* a team route that answers a search without data with a failure
TeamResponseFailsOnNull(resolved) ==
  IF resolved.threw \/ resolved.result = None
    THEN [status |-> 500, success |-> FALSE, articles |-> << >>, total |-> 0]
    ELSE [status |-> 200, success |-> TRUE,
          articles |-> resolved.result[1].results,
          total |-> resolved.result[1].total]

\* the response of the team route to what its search returned
TeamResponse(resolved) ==
  IF resolved.threw
    THEN [status |-> 500, success |-> FALSE, articles |-> << >>, total |-> 0]
  ELSE IF resolved.result = None
    THEN [status |-> 200, success |-> TRUE, articles |-> << >>, total |-> 0]
  ELSE [status |-> 200, success |-> TRUE,
        articles |-> resolved.result[1].results,
        total |-> resolved.result[1].total]

\* GET /api/guardian/team from the return of its search to the response
TeamStep(s, resolved) ==
  /\ searches' = searches (-) SetToBag({s})
  /\ last' = [op |-> "teamResponse",
              resolved |-> Some([strategy |-> Entered(s).strategy,
                                 query |-> Entered(s).query,
                                 outcome |-> resolved.outcome,
                                 result |-> resolved.result]),
              entered |-> None,
              response |-> Some(TeamResponse(resolved))]

\* the await of a team search that a hit or a missing credential resolved
TeamResumes ==
  \E s \in BagToSet(searches) :
    /\ ~s.wait
    /\ TeamStep(s, [threw |-> FALSE, result |-> s.ret, outcome |-> "resolved"])
    /\ UNCHANGED <<now, cache, guardianArticles, inflight, guardianApiKey, fixture,
                   firstCall>>

\* the provider's answer to the search of a team request
TeamGuardianReturns(s, status, body, networkDown) ==
  LET fetched == fetchGuardianData(status, body, networkDown)
      cacheKey == Entered(s).cacheKey
  IN /\ s.wait
     /\ guardianArticles' =
          GuardianStore(guardianArticles, cacheKey, fetched, s.startedAt)
     /\ TeamStep(s, [threw |-> fetched.threw,
                     result |-> IF fetched.threw THEN None ELSE SearchResult(fetched),
                     outcome |-> IF networkDown THEN "transport"
                                 ELSE IF status # 200 THEN "status"
                                 ELSE "ok"])
     /\ UNCHANGED <<now, cache, inflight, guardianApiKey, fixture, firstCall>>

TeamGuardianAnswers ==
  \E s \in BagToSet(searches), status \in GuardianStatuses, body \in GuardianBodies :
    TeamGuardianReturns(s, status, body, FALSE)

TeamGuardianNetworkFails ==
  \E s \in BagToSet(searches) : TeamGuardianReturns(s, 0, [response |-> None], TRUE)

(***************************************************************************)
(* The team-search specification: team-article requests, the requests the  *)
(* article routes reject, clears and the passing of time.                  *)
(***************************************************************************)
TeamInit == SearchInitWith({<<"Arsenal", "Chelsea", "report">>})

TeamNext ==
  \/ TeamRequest
  \/ MatchRequestRejected
  \/ TeamResumes
  \/ TeamGuardianAnswers
  \/ TeamGuardianNetworkFails
  \/ ClearCache
  \/ SearchTimePasses

TeamSpec == TeamInit /\ [][TeamNext]_vars

(***************************************************************************)
(* The overlap specification: requests that overlap on the same key and    *)
(* the passing of time.  A run has requests for a named resource or        *)
(* team-article requests (the two caches share no entry).                  *)
(***************************************************************************)
MaxOverlap == 2

\* GET /api/guardian/team for a team that is there, to its await
TeamSearchStarts(team, limit) ==
  /\ BagCardinality(searches) < limit
  /\ team # ""
  /\ LET s == EnterSearch([plan |-> TeamPlan(team), idx |-> 1,
                           wait |-> FALSE, startedAt |-> NullTs, ret |-> None],
                          1, guardianArticles, now, guardianApiKey)
     IN /\ searches' = searches (+) SetToBag({s})
        /\ last' = [op |-> "teamRequest", team |-> team,
                    resolved |-> None, entered |-> Some(Entered(s)),
                    response |-> None]
  /\ UNCHANGED <<now, cache, guardianArticles, inflight, guardianApiKey, fixture,
                 firstCall>>

OverlapTeamRequest ==
  /\ inflight = EmptyBag /\ cache = InitialCache
  /\ TeamSearchStarts("Arsenal", MaxOverlap)

\* a request for a named resource, its time of issue remembered
OverlapStartResource ==
  /\ searches = EmptyBag /\ guardianArticles = EmptyMap
  /\ \E k \in RequestedNamed : StartAt(k, EndpointOf(k), now)

OverlapNext ==
  \/ OverlapStartResource
  \/ ProviderAnswers
  \/ NetworkFails
  \/ OverlapTeamRequest
  \/ TeamResumes
  \/ TeamGuardianAnswers
  \/ TeamGuardianNetworkFails
  \/ TimePasses

OverlapSpec == Init /\ [][OverlapNext]_vars

(***************************************************************************)
(* The head-to-head request specification: GET /api/head2head/:matchId     *)
(* with its limit parameter, against a provider whose answer names the     *)
(* endpoint it answers, with clears and the passing of time.               *)
(***************************************************************************)
\* req.query.limit: absent, empty or a number in text
LimitParams == {None, Some(""), Some("5"), Some("10")}

\* req.query.limit || 10, as the template literal prints it
Head2HeadLimit(param) ==
  IF param = None \/ param[1] = "" THEN "10" ELSE param[1]

Head2HeadEndpoint(matchId, param) ==
  "/matches/" \o ToString(matchId) \o "/head2head?limit=" \o Head2HeadLimit(param)

\* GET /api/head2head/:matchId to the await of getCachedOrFetch
Head2HeadRequest ==
  \E m \in MatchIds, param \in LimitParams :
    StartAt(Head2HeadKey(m), Head2HeadEndpoint(m, param), now)

\* the body of the provider's answer to an endpoint: it tells the endpoint
\* (path and query) it was asked for
PayloadOf(endpoint) == "{\"fetched\":\"" \o endpoint \o "\"}"

\* the provider answers a call with the payload of the call's endpoint or
\* with a failure status
ProviderAnswersEndpoint ==
  \E call \in BagToSet(inflight), status \in Statuses :
    Complete(call, status, PayloadOf(call.endpoint), FALSE)

LimitNext ==
  \/ Head2HeadRequest
  \/ ProviderAnswersEndpoint
  \/ NetworkFails
  \/ ClearCache
  \/ TimePasses

LimitSpec == Init /\ [][LimitNext]_vars

(***************************************************************************)
(* The whole-cache specification: match-data requests and match-article    *)
(* requests side by side, with clears, at one instant: the cache holds     *)
(* named entries, head-to-head slots and article-search entries.           *)
(***************************************************************************)
WholeNext ==
  \/ StartResource
  \/ StartHead2Head
  \/ ProviderAnswers
  \/ NetworkFails
  \/ MatchRequestAlone
  \/ SearchResumes
  \/ GuardianAnswers
  \/ GuardianNetworkFails
  \/ ClearCache

WholeSpec == Init /\ [][WholeNext]_vars

(***************************************************************************)
(* The last-season routes on their own: the season year each computes from *)
(* the year and the month index of the clock, and the endpoint it fetches. *)
(***************************************************************************)
FirstYear == 2020
MaxYears == 10
Years == FirstYear..(FirstYear + MaxYears - 1)
Months == 0..11

\* a season that turns over in September
StandingsLastSeasonYearSeptember(currentYear, currentMonth) ==
  IF currentMonth < 8 THEN currentYear - 2 ELSE currentYear - 1

\* lastSeasonYear of GET /api/standings/last
StandingsLastSeasonYear(currentYear, currentMonth) ==
  IF currentMonth < 7 THEN currentYear - 2 ELSE currentYear - 1

\* lastSeasonYear of GET /api/matches/last
MatchesLastSeasonYear(currentYear, currentMonth) ==
  IF currentMonth < 7 THEN currentYear - 2 ELSE currentYear - 1

StandingsLastEndpoint(currentYear, currentMonth) ==
  "/competitions/PL/standings?season="
    \o ToString(StandingsLastSeasonYear(currentYear, currentMonth))

MatchesLastEndpoint(currentYear, currentMonth) ==
  "/competitions/PL/matches?season="
    \o ToString(MatchesLastSeasonYear(currentYear, currentMonth))

LastSeasonComputed ==
  \E currentYear \in Years, currentMonth \in Months :
    /\ last' = [op |-> "lastSeason",
                currentYear |-> currentYear, currentMonth |-> currentMonth,
                standingsYear |-> StandingsLastSeasonYear(currentYear, currentMonth),
                matchesYear |-> MatchesLastSeasonYear(currentYear, currentMonth),
                standingsEndpoint |-> StandingsLastEndpoint(currentYear, currentMonth),
                matchesEndpoint |-> MatchesLastEndpoint(currentYear, currentMonth)]
    /\ UNCHANGED <<now, cache, guardianArticles, inflight, searchVars>>

SeasonSpec == Init /\ [][LastSeasonComputed]_vars

(***************************************************************************)
(* The last-season request specification: GET /api/standings/last and      *)
(* GET /api/matches/last while the calendar passes from July to August,    *)
(* against a provider whose answer names the endpoint it answers.          *)
(***************************************************************************)
\* the instant of the process clock at which August begins
AugustStart == 3 * TickMs

\* new Date().getFullYear() and new Date().getMonth() at the instant t
CalendarYear(t) == FirstYear + 1
CalendarMonth(t) == IF t < AugustStart THEN 6 ELSE 7

\* GET /api/standings/last to the await of getCachedOrFetch
StandingsLastRequest ==
  StartAt("standingsLast",
          StandingsLastEndpoint(CalendarYear(now), CalendarMonth(now)), now)

\* GET /api/matches/last to the await of getCachedOrFetch
MatchesLastRequest ==
  StartAt("matchesLast",
          MatchesLastEndpoint(CalendarYear(now), CalendarMonth(now)), now)

LastSeasonNext ==
  \/ StandingsLastRequest
  \/ MatchesLastRequest
  \/ ProviderAnswersEndpoint
  \/ NetworkFails
  \/ ClearCache
  \/ TimePasses

LastSeasonSpec == Init /\ [][LastSeasonNext]_vars

(***************************************************************************)
(* GET /api/head2head/:matchId from the payload getCachedOrFetch returned  *)
(* to the response.  A field of the payload is << >> when it is absent and *)
(* <<v>> when it holds v; the payload is << >> when it is null.            *)
(***************************************************************************)
MaxCount == 6
MaxMeetings == 6

\* x || 0 on a count of the payload
OrZero(field) == IF field = None \/ field[1] = 0 THEN 0 ELSE field[1]

\* s?.f for a field f of an optional record s
Field(record, name) == IF record = None THEN None ELSE record[1][name]

\* the upstream list of n meetings: every second one has no short names
Meetings(n) ==
  [i \in 1..n |->
     [utcDate |-> i,
      homeTeam |-> [name |-> "Arsenal FC",
                    shortName |-> IF i % 2 = 1 THEN Some("Arsenal") ELSE None],
      awayTeam |-> [name |-> "Chelsea FC",
                    shortName |-> IF i % 2 = 1 THEN Some("Chelsea") ELSE None],
      score |-> [winner |-> IF i % 2 = 1 THEN "HOME_TEAM" ELSE "DRAW",
                 fullTime |-> [home |-> i % 3, away |-> 0]]]]

Counts == {None} \cup {Some(n) : n \in 0..MaxCount}

TeamAggregates ==
  {None} \cup {Some([name |-> "Arsenal FC", wins |-> w]) : w \in Counts}

Aggregates ==
  {None} \cup
  {Some(a) : a \in [homeTeam : TeamAggregates, awayTeam : TeamAggregates,
                     draws : {None, Some(0), Some(1)},
                     numberOfMatches : Counts]}

Head2HeadPayloads ==
  {None} \cup
  {Some(d) : d \in [matches : {None, Some(Meetings(0)), Some(Meetings(1)),
                                Some(Meetings(MaxMeetings))},
                     aggregates : Aggregates]}

\* m.homeTeam.shortName || m.homeTeam.name
ShortOrName(team) == IF team.shortName # None THEN team.shortName[1] ELSE team.name

\* data.matches.slice(0, 5).map(...)
RecentMatches(matches) ==
  [i \in 1..(IF Len(matches) < 5 THEN Len(matches) ELSE 5) |->
     [date |-> matches[i].utcDate,
      homeTeam |-> ShortOrName(matches[i].homeTeam),
      awayTeam |-> ShortOrName(matches[i].awayTeam),
      homeScore |-> matches[i].score.fullTime.home,
      awayScore |-> matches[i].score.fullTime.away,
      winner |-> matches[i].score.winner]]

\* stats whose losses are each side's own wins
Head2HeadStatsOwnWins(data) ==
  LET aggregates == data.aggregates
      home == Field(aggregates, "homeTeam")
      away == Field(aggregates, "awayTeam")
  IN [homeTeam |-> [name |-> Field(home, "name"),
                    wins |-> OrZero(Field(home, "wins")),
                    draws |-> OrZero(Field(aggregates, "draws")),
                    losses |-> OrZero(Field(home, "wins"))],
      awayTeam |-> [name |-> Field(away, "name"),
                    wins |-> OrZero(Field(away, "wins")),
                    draws |-> OrZero(Field(aggregates, "draws")),
                    losses |-> OrZero(Field(away, "wins"))],
      totalMatches |-> OrZero(Field(aggregates, "numberOfMatches")),
      recentMatches |-> RecentMatches(data.matches[1])]

\* the stats object of the handler
Head2HeadStats(data) ==
  LET aggregates == data.aggregates
      home == Field(aggregates, "homeTeam")
      away == Field(aggregates, "awayTeam")
  IN [homeTeam |-> [name |-> Field(home, "name"),
                    wins |-> OrZero(Field(home, "wins")),
                    draws |-> OrZero(Field(aggregates, "draws")),
                    losses |-> OrZero(Field(away, "wins"))],
      awayTeam |-> [name |-> Field(away, "name"),
                    wins |-> OrZero(Field(away, "wins")),
                    draws |-> OrZero(Field(aggregates, "draws")),
                    losses |-> OrZero(Field(home, "wins"))],
      totalMatches |-> OrZero(Field(aggregates, "numberOfMatches")),
      recentMatches |-> RecentMatches(data.matches[1])]

\* the response to a payload: data && data.matches decides (a list, empty
\* or not, is truthy)
Head2HeadResponse(payload) ==
  IF payload # None /\ payload[1].matches # None
    THEN [status |-> 200, success |-> TRUE,
          stats |-> Some(Head2HeadStats(payload[1])),
          allMatches |-> payload[1].matches]
    ELSE [status |-> 200, success |-> TRUE, stats |-> None, allMatches |-> None]

\* a request whose getCachedOrFetch returned the payload
Head2HeadInit ==
  /\ now = TickMs
  /\ cache = InitialCache
  /\ guardianArticles = EmptyMap
  /\ inflight = EmptyBag
  /\ guardianApiKey = TRUE
  /\ fixture = <<"Arsenal", "Chelsea", "report">>
  /\ searches = EmptyBag
  /\ firstCall = << >>
  /\ last \in {[op |-> "head2headData", payload |-> payload] :
                 payload \in Head2HeadPayloads}

Head2HeadResponds ==
  /\ last.op = "head2headData"
  /\ last' = [op |-> "head2head", payload |-> last.payload,
              response |-> Head2HeadResponse(last.payload)]
  /\ UNCHANGED <<now, cache, guardianArticles, inflight, searchVars>>

Head2HeadSpec == Head2HeadInit /\ [][Head2HeadResponds]_vars

(***************************************************************************)
(* The team names of GET /api/guardian/match on their own: the variations  *)
(* the handler gets for each and the strategies it has for the pair.       *)
(***************************************************************************)
\* names the table maps, names it does not, and names Object.prototype has
TeamNames == DOMAIN TEAM_NAME_VARIATIONS \cup {"Burnley", "Leeds"} \cup InheritedKeys

VariationsInit ==
  /\ now = TickMs
  /\ cache = InitialCache
  /\ guardianArticles = EmptyMap
  /\ inflight = EmptyBag
  /\ guardianApiKey = TRUE
  /\ fixture = <<"Arsenal", "Chelsea", "report">>
  /\ searches = EmptyBag
  /\ firstCall = << >>
  /\ last \in {[op |-> "matchParams", homeTeam |-> h, awayTeam |-> a] :
                 h \in TeamNames, a \in TeamNames}

VariationsComputed ==
  /\ last.op = "matchParams"
  /\ last' = [op |-> "variations",
              homeTeam |-> last.homeTeam, awayTeam |-> last.awayTeam,
              homeVariations |-> getTeamVariations(last.homeTeam),
              awayVariations |-> getTeamVariations(last.awayTeam),
              strategies |-> MatchStrategies(last.homeTeam, last.awayTeam)]
  /\ UNCHANGED <<now, cache, guardianArticles, inflight, searchVars>>

VariationsSpec == VariationsInit /\ [][VariationsComputed]_vars

(***************************************************************************)
(* fetchFootballData on its own: one call per step, for every answer of    *)
(* the provider.                                                           *)
(***************************************************************************)
FetchStatuses == {200, 201, 204, 299, 301, 400, 401, 403, 404, 429, 500, 503}
ReasonPhrases == {"reason", "Forbidden", "Too Many Requests"}
FetchBodies == Payloads \cup UnparseableBodies

FetchInputs ==
  [status : FetchStatuses, statusText : ReasonPhrases, body : FetchBodies,
   networkDown : BOOLEAN]

FetchReturns ==
  \E in \in FetchInputs :
    /\ last' = [op |-> "fetchFootballData", in |-> in,
                res |-> fetchFootballData(in.status, in.statusText, in.body,
                                          in.networkDown)]
    /\ UNCHANGED <<now, cache, guardianArticles, inflight, searchVars>>

FetchSpec == Init /\ [][FetchReturns]_vars

(***************************************************************************)
(* Properties of the match-data cache.                                     *)
(***************************************************************************)
\* the number of calls in flight for a key
InFlightFor(bag, k) ==
  LET calls == {c \in BagToSet(bag) : c.key = k}
      Sum[S \in SUBSET calls] ==
        IF S = {} THEN 0
        ELSE LET c == CHOOSE x \in S : TRUE
             IN CopiesIn(c, bag) + Sum[S \ {c}]
  IN Sum[calls]

\* a value was stored under k and less than its ttl has passed since
StoredWithinTtl(k) ==
  /\ k \in DOMAIN cache
  /\ cache[k].timestamp # NullTs
  /\ now - cache[k].timestamp < cache[k].ttl

\* a value was stored under k and its ttl or more has passed since
StoredAndExpired(k) ==
  /\ k \in DOMAIN cache
  /\ cache[k].timestamp # NullTs
  /\ now - cache[k].timestamp >= cache[k].ttl

\* the step is a getCachedOrFetch call on k (taken up to its await)
CalledOn(k) == last'.op \in {"hit", "miss"} /\ last'.key = k

\* C1: a getCachedOrFetch on a key made while less than ttl has passed since
\* a fetched value was stored under it returns the stored value and issues
\* no upstream call, whatever payload the upstream returned.
C1_WithinTtlServedFromCache ==
  [][\A k \in RequestKeys :
       (StoredWithinTtl(k) /\ CalledOn(k))
         => /\ last'.op = "hit"
            /\ last'.body = cache[k].data
            /\ inflight' = inflight]_vars

\* C2: once ttl or more has passed since the value was stored, the next
\* getCachedOrFetch on the key issues exactly one upstream call, whose result
\* is stored with the time of the store when it arrives; a cache hit changes
\* nothing in the cache (it does not refresh the timestamp).
C2_ExpiredRefetchesOnce ==
  [][\A k \in RequestKeys :
       /\ (StoredAndExpired(k) /\ CalledOn(k))
            => /\ last'.op = "miss"
               /\ InFlightFor(inflight', k) = InFlightFor(inflight, k) + 1
               /\ BagCardinality(inflight') = BagCardinality(inflight) + 1
               /\ cache' = cache
       /\ (last'.op = "hit" /\ last'.key = k)
            => /\ cache' = cache
               /\ inflight' = inflight
       /\ (last'.op = "fetched" /\ last'.key = k)
            => /\ cache'[k].data = last'.body
               /\ cache'[k].timestamp = now
               /\ InFlightFor(inflight', k) = InFlightFor(inflight, k) - 1
               /\ BagCardinality(inflight') = BagCardinality(inflight) - 1]_vars

\* C2 witness: a call on an entry that holds a stored value whose ttl has
\* run out was answered by a miss.
C2_Witness ==
  /\ last.op = "miss"
  /\ last.key \in DOMAIN cache
  /\ Truthy(cache[last.key].data)
  /\ cache[last.key].timestamp # NullTs
  /\ now - cache[last.key].timestamp >= cache[last.key].ttl

\* the messages fetchFootballData throws
FailureMessages ==
  {"network: request failed", "API key required or rate limit exceeded",
   "Rate limit exceeded", "API returned 500: reason"}

\* C3: when the upstream fetch of a miss fails, the failure reaches the
\* caller (a 500 carrying the message), the step leaves every cache entry as
\* it was and creates no slot, and a request made while the entry is still
\* not valid issues a new upstream call.
C3_FailureLeavesCache ==
  [][/\ (last'.op = "failed")
          => /\ cache' = cache
             /\ guardianArticles' = guardianArticles
             /\ last'.status = 500
             /\ last'.details \in FailureMessages
             /\ BagCardinality(inflight') = BagCardinality(inflight) - 1
     /\ \A k \in RequestKeys :
          (CalledOn(k) /\ ~StoredWithinTtl(k))
            => /\ last'.op = "miss"
               /\ InFlightFor(inflight', k) = InFlightFor(inflight, k) + 1]_vars

\* C3 witness: the fetch for a key that has no slot failed.
C3_Witness ==
  /\ last.op = "failed"
  /\ last.key \notin DOMAIN cache

\* C4: right after a clear no key is valid, and a key that is not valid
\* becomes valid only by the step that stores an upstream fetch for it.
C4_InvalidAfterClearUntilFetch ==
  [][/\ (last'.op = "clear")
          => \A k \in AllKeys : ~isCacheValidAt(cache', k, now')
     /\ \A k \in AllKeys :
          (~isCacheValid(k) /\ isCacheValidAt(cache', k, now'))
            => (last'.op = "fetched" /\ last'.key = k)]_vars

\* C4 witness: a clear ran over a cache that holds a head-to-head slot while
\* a fetch was in flight.
C4_Witness ==
  /\ last.op = "clear"
  /\ Head2HeadKey(1) \in DOMAIN cache
  /\ inflight # EmptyBag

\* C5 as stated: after a clear every named entry is invalid, no
\* article-search entry is left and no head2head-<matchId> slot is left in
\* the cache.
C5_ClearRemovesDynamicEntries ==
  (last.op = "clear")
    => /\ \A k \in NamedKeys : ~isCacheValid(k)
       /\ guardianArticles = EmptyMap
       /\ DOMAIN cache \cap Head2HeadKeys = {}

\* C5: a clear leaves every slot of the cache in place, the named ones and
\* the head2head-<matchId> ones alike, with no value, no timestamp and the
\* ttl it had, so that none is valid; only the article-search entries are
\* removed.
C5_ClearResetsSlotsRemovesArticles ==
  [][(last'.op = "clear")
       => /\ DOMAIN cache' = DOMAIN cache
          /\ \A k \in DOMAIN cache :
               /\ cache'[k] = [data |-> "null", timestamp |-> NullTs,
                               ttl |-> cache[k].ttl]
               /\ ~isCacheValidAt(cache', k, now')
          /\ guardianArticles' = EmptyMap]_vars

\* C5 witness: a clear ran over a cache that held a stored named entry, a
\* stored head-to-head entry and an article-search entry.
C5_Witness ==
  /\ last.op = "clear"
  /\ "standings" \in last.reset
  /\ Head2HeadKey(1) \in last.reset
  /\ last.dropped # {}

\* C6: isCacheValid(key) is true exactly when the entry holds a value (also
\* a falsy JSON value such as 0), holds a timestamp and now - timestamp < ttl.
C6_ValidIffPresentAndFresh ==
  \A k \in DOMAIN cache :
    isCacheValid(k) <=> /\ cache[k].data # "null"
                        /\ cache[k].timestamp # NullTs
                        /\ now - cache[k].timestamp < cache[k].ttl

(***************************************************************************)
(* Properties of the match-article search.                                 *)
(***************************************************************************)
\* the order of the strategies
StrategyOrder ==
  <<"exact", "full-names", "unquoted", "variation-1", "variation-2", "variation-3">>

Rank(name) == CHOOSE i \in 1..Len(StrategyOrder) : StrategyOrder[i] = name

\* the names of the strategies the fixture of the run has
PlanNames ==
  LET strategies == MatchStrategies(fixture[1], fixture[2])
  IN {strategies[i].name : i \in 1..Len(strategies)}

\* the step is one of a match-article request past its first call
SearchReturned == last'.op \in {"matchSearch", "matchResponse"}

\* the requests that wait for the provider
Waiting(bag) == {s \in BagToSet(bag) : s.wait}

\* C7: a match-article request begins with exact; a strategy that found at
\* least one article ends the request in the same step, with that strategy
\* reported and no further call; a strategy that found none is followed by
\* the nearest later strategy of the order exact, full-names, unquoted,
\* variation-1, variation-2, ... that the fixture has, and 'none' is
\* reported only after the last one.
C7_StrategiesInOrderStopAtFirst ==
  [][/\ (last'.op = "matchRequest") => last'.entered[1].strategy = "exact"
     /\ SearchReturned =>
          LET r == last'.resolved[1]
          IN /\ Found(r.result)
                  => /\ last'.op = "matchResponse"
                     /\ last'.entered = None
                     /\ last'.response[1].searchStrategy = r.strategy
                     /\ last'.response[1].articles = r.result[1].results
                     /\ searches' = EmptyBag
             /\ (last'.entered # None)
                  => /\ ~Found(r.result)
                     /\ Rank(last'.entered[1].strategy) > Rank(r.strategy)
                     /\ \A n \in PlanNames :
                          ~(/\ Rank(n) > Rank(r.strategy)
                            /\ Rank(n) < Rank(last'.entered[1].strategy))
             /\ (~Found(r.result) /\ last'.op = "matchResponse")
                  => /\ last'.response[1].searchStrategy = "none"
                     /\ \A n \in PlanNames : Rank(n) <= Rank(r.strategy)]_vars

\* C7 witness: for a fixture that has full-names and variation strategies,
\* the request ended with the articles of unquoted.
C7_Witness ==
  /\ fixture = <<"Man City", "Man Utd", "report">>
  /\ last.op = "matchResponse"
  /\ last.response[1].searchStrategy = "unquoted"
  /\ last.response[1].articles # << >>
  /\ searches = EmptyBag

\* C8: whatever the provider did and with or without the credential, the
\* response of a match-article request is a success; with searchStrategy
\* 'none' it has no articles and total 0, and it has articles exactly when
\* searchStrategy is not 'none'.
C8_AlwaysSuccessResponse ==
  (last.op = "matchResponse")
    => LET response == last.response[1]
       IN /\ response.status = 200
          /\ response.success
          /\ (response.searchStrategy = "none")
               => (response.articles = << >> /\ response.total = 0)
          /\ (response.articles # << >>) <=> (response.searchStrategy # "none")

\* C8 witness: the last strategy of a request ended on a transport error and
\* the request answered 'none'.
C8_Witness ==
  /\ last.op = "matchResponse"
  /\ last.resolved[1].outcome = "transport"
  /\ last.response[1].searchStrategy = "none"

C10_FailureReturnsNullNotCached ==
  [][/\ (SearchReturned /\ last'.resolved[1].outcome \in {"status", "transport"})
          => /\ last'.resolved[1].result = None
             /\ guardianArticles' = guardianArticles
             /\ (last'.response # None) => last'.response[1].status = 200
     /\ (/\ last'.op \in {"matchRequest", "matchSearch"}
         /\ guardianApiKey
         /\ ~GuardianHit(guardianArticles', last'.entered[1].cacheKey, now'))
          => last'.entered[1].source = "provider"]_vars

\* C10 witness: a provider call ended on a non-success status with entries
\* of other searches in the cache.
C10_Witness ==
  /\ last.op \in {"matchSearch", "matchResponse"}
  /\ last.resolved[1].outcome = "status"
  /\ guardianArticles # EmptyMap

\* C11: without the news provider's credential every search call resolves
\* with null at once: no request ever waits for the provider, no request
\* fails, and the search cache stays empty.
C11_NoCredentialReturnsNull ==
  [][(~guardianApiKey)
       => /\ (last'.op \in {"matchRequest", "matchSearch"})
               => /\ last'.entered[1].source = "nokey"
                  /\ last'.entered[1].ret = None
          /\ SearchReturned
               => /\ last'.resolved[1].outcome = "resolved"
                  /\ last'.resolved[1].result = None
                  /\ (last'.response # None) => last'.response[1].status = 200
          /\ Waiting(searches') = {}
          /\ guardianArticles' = EmptyMap]_vars

\* C11 witness: without the credential a request went through its
\* strategies and answered 'none'.
C11_Witness ==
  /\ ~guardianApiKey
  /\ last.op = "matchResponse"
  /\ last.resolved[1].outcome = "resolved"
  /\ last.resolved[1].result = None
  /\ last.response[1].searchStrategy = "none"

(***************************************************************************)
(* Properties of fetchFootballData.                                        *)
(***************************************************************************)
\* the failure the taxonomy names for an answer of the provider
FailureKind(in) ==
  IF in.networkDown THEN "transport"
  ELSE IF in.status = 403 THEN "authOrRateLimit"
  ELSE IF in.status = 429 THEN "rateLimit"
  ELSE IF ~(in.status >= 200 /\ in.status <= 299) THEN "upstream"
  ELSE IF ~Parses(in.body) THEN "parse"
  ELSE "none"

FetchOf(in) == fetchFootballData(in.status, in.statusText, in.body, in.networkDown)

\* the message of each failure, and failures of two kinds never share one
FailuresByKind(in, res) ==
  /\ (FailureKind(in) = "transport") => res.message = "network: request failed"
  /\ (FailureKind(in) = "authOrRateLimit")
       => res.message = "API key required or rate limit exceeded"
  /\ (FailureKind(in) = "rateLimit") => res.message = "Rate limit exceeded"
  /\ (FailureKind(in) = "upstream")
       => res.message =
            "API returned " \o ToString(in.status) \o ": " \o in.statusText
  /\ \A other \in FetchInputs :
       (FailureKind(other) \notin {"none", FailureKind(in)})
         => FetchOf(other).message # res.message

\* C12 as stated: fetchFootballData returns the payload exactly when the
\* status is a success (and no network failure happened); 403, 429, another
\* non-success status and a network failure give four failures that can be
\* told apart.
C12_PayloadIffSuccessStatus ==
  (last.op = "fetchFootballData")
    => LET in == last.in
           res == last.res
       IN /\ res.ok <=> (~in.networkDown /\ in.status >= 200 /\ in.status <= 299)
          /\ res.ok => res.data = in.body
          /\ (~res.ok) => FailuresByKind(in, res)

\* C12: fetchFootballData returns the payload exactly when the status is a
\* success and the body parses as JSON; 403, 429, another non-success status
\* and a network failure give the four failures of the taxonomy, a success
\* status with a body that does not parse gives the parser's failure, and
\* failures of different kinds carry different messages.
C12_PayloadIffSuccessAndParses ==
  (last.op = "fetchFootballData")
    => LET in == last.in
           res == last.res
       IN /\ res.ok <=> (/\ ~in.networkDown
                         /\ in.status >= 200 /\ in.status <= 299
                         /\ Parses(in.body))
          /\ res.ok => res.data = in.body
          /\ (~res.ok) => FailuresByKind(in, res)

\* C12 witness: the provider answered 403 and the failure is the one of 403.
C12_Witness ==
  /\ last.op = "fetchFootballData"
  /\ ~last.in.networkDown
  /\ last.in.status = 403
  /\ ~last.res.ok
  /\ last.res.message = "API key required or rate limit exceeded"

\* C13: the step in which the upstream fetch of a match-data request fails
\* answers 500 and ends that request's one upstream call without issuing
\* another; the number of upstream calls in flight grows only by the miss
\* of a client request, and then by one.
C13_FailureIs500NoRetry ==
  [][/\ (last'.op = "failed")
          => /\ last'.status = 500
             /\ InFlightFor(inflight', last'.key) = InFlightFor(inflight, last'.key) - 1
             /\ BagCardinality(inflight') = BagCardinality(inflight) - 1
     /\ (BagCardinality(inflight') > BagCardinality(inflight))
          => /\ last'.op = "miss"
             /\ BagCardinality(inflight') = BagCardinality(inflight) + 1]_vars

\* C13 witness: the fetch of the only request in flight, for a named
\* resource, failed.
C13_Witness ==
  /\ last.op = "failed"
  /\ last.key = "standings"
  /\ last.status = 500
  /\ inflight = EmptyBag

(***************************************************************************)
(* Properties of the team-article route and of the rejected requests.      *)
(***************************************************************************)
\* C14: a match request without homeTeam or awayTeam and a team request
\* without team are answered 400 in a step that issues no upstream call and
\* changes nothing in the cache; a team request that is searched has a team.
C14_MissingParameterIs400 ==
  [][/\ (last'.op = "badRequest")
          => /\ last'.status = 400
             /\ last'.route \in {"match", "team"}
             /\ cache' = cache
             /\ guardianArticles' = guardianArticles
             /\ inflight' = inflight
             /\ searches' = searches
     /\ (last'.op = "teamRequest") => last'.team # ""]_vars

\* C14 witness: a team request without team was rejected while the search
\* cache held an entry.
C14_Witness ==
  /\ last.op = "badRequest"
  /\ last.route = "team"
  /\ last.status = 400
  /\ guardianArticles # EmptyMap

\* C19: a team request makes one search call, for the team name as given
\* between quotes, with page size and order as its only options (no tag);
\* the step in which that call returns answers the request without another
\* call, always with a success: the articles and total of the result, or []
\* and 0 when the search returned null.
C19_TeamSearchSingleStrategy ==
  [][/\ (last'.op = "teamRequest")
          => /\ last'.entered[1].strategy = "team"
             /\ last'.entered[1].query = "\"" \o last'.team \o "\""
             /\ last'.entered[1].cacheKey =
                  last'.entered[1].query
                    \o "-{\"page-size\":5,\"order-by\":\"newest\"}"
             /\ BagCardinality(searches') = BagCardinality(searches) + 1
     /\ (last'.op = "teamResponse")
          => LET result == last'.resolved[1].result
                 response == last'.response[1]
             IN /\ last'.entered = None
                /\ BagCardinality(searches') = BagCardinality(searches) - 1
                /\ Waiting(searches') \subseteq Waiting(searches)
                /\ response.status = 200
                /\ response.success
                /\ (result = None)
                     => (response.articles = << >> /\ response.total = 0)
                /\ (result # None)
                     => /\ response.articles = result[1].results
                        /\ response.total = result[1].total]_vars

\* C19 witness: the search of "Man City" as given ended on a non-success
\* status and the request was answered with no articles.
C19_Witness ==
  /\ last.op = "teamResponse"
  /\ last.resolved[1].query = "\"Man City\""
  /\ last.resolved[1].outcome = "status"
  /\ last.response[1].success
  /\ last.response[1].articles = << >>
  /\ last.response[1].total = 0

(***************************************************************************)
(* Properties of the last-season routes.                                   *)
(***************************************************************************)
\* C15: for every year and month index the two last-season routes use the
\* same season year: the year before when the month index is 7 (August) or
\* later, two years before otherwise; and each asks the provider for that
\* season.
C15_LastSeasonYear ==
  (last.op = "lastSeason")
    => LET expected == IF last.currentMonth >= 7
                         THEN last.currentYear - 1
                         ELSE last.currentYear - 2
       IN /\ last.standingsYear = expected
          /\ last.matchesYear = expected
          /\ last.standingsEndpoint =
               "/competitions/PL/standings?season=" \o ToString(expected)
          /\ last.matchesEndpoint =
               "/competitions/PL/matches?season=" \o ToString(expected)

\* C15 witness: in August the season of the year before was computed.
C15_Witness ==
  /\ last.op = "lastSeason"
  /\ last.currentMonth = 7
  /\ last.standingsYear = last.currentYear - 1

(***************************************************************************)
(* Properties of the head-to-head route.                                   *)
(***************************************************************************)
\* C16: in the stats derived from any aggregates record, each side's losses
\* are the other side's wins, both sides' draws are the record's draws, and
\* totalMatches is numberOfMatches, an absent field (or an absent record)
\* counting as 0.
C16_StatsMirrorAggregates ==
  (last.op = "head2head" /\ last.response.stats # None)
    => LET stats == last.response.stats[1]
           aggregates == last.payload[1].aggregates
           homeWins == OrZero(Field(Field(aggregates, "homeTeam"), "wins"))
           awayWins == OrZero(Field(Field(aggregates, "awayTeam"), "wins"))
       IN /\ stats.homeTeam.wins = homeWins
          /\ stats.awayTeam.wins = awayWins
          /\ stats.homeTeam.losses = stats.awayTeam.wins
          /\ stats.awayTeam.losses = stats.homeTeam.wins
          /\ stats.homeTeam.draws = OrZero(Field(aggregates, "draws"))
          /\ stats.awayTeam.draws = stats.homeTeam.draws
          /\ stats.totalMatches = OrZero(Field(aggregates, "numberOfMatches"))

\* C16 witness: home wins 3, away wins 2, draws 1 and 6 meetings gave home
\* losses 2, away losses 3 and draws 1 on both sides.
C16_Witness ==
  /\ last.op = "head2head"
  /\ last.payload # None
  /\ last.payload[1].aggregates # None
  /\ last.payload[1].aggregates[1].homeTeam = Some([name |-> "Arsenal FC", wins |-> Some(3)])
  /\ last.payload[1].aggregates[1].awayTeam = Some([name |-> "Arsenal FC", wins |-> Some(2)])
  /\ last.payload[1].aggregates[1].draws = Some(1)
  /\ last.payload[1].aggregates[1].numberOfMatches = Some(6)
  /\ last.response.stats # None
  /\ last.response.stats[1].homeTeam.losses = 2
  /\ last.response.stats[1].awayTeam.losses = 3
  /\ last.response.stats[1].homeTeam.draws = 1
  /\ last.response.stats[1].awayTeam.draws = 1
  /\ last.response.stats[1].totalMatches = 6

\* C17: whenever the payload has no prior meetings (it is null, it has no
\* list of matches, or the list is empty) the response is a success with
\* stats = null.
C17_NoMeetingsGivesNullStats ==
  (/\ last.op = "head2head"
   /\ \/ last.payload = None
      \/ last.payload[1].matches = None
      \/ last.payload[1].matches = Some(<< >>))
    => /\ last.response.status = 200
       /\ last.response.success
       /\ last.response.stats = None

(***************************************************************************)
(* Properties of the team-name variations.                                 *)
(***************************************************************************)
Range(seq) == {seq[i] : i \in 1..Len(seq)}

\* the claim of C18 for one name and the variations returned for it
VariationsAsStated(teamName, variations) ==
  /\ Len(variations) >= 1
  /\ teamName \in Range(variations)
  /\ (teamName \notin DOMAIN TEAM_NAME_VARIATIONS) => variations = <<teamName>>
  /\ (teamName = "Man City") => variations = <<"Manchester City", "Man City">>
  /\ (teamName = "Burnley") => variations = <<"Burnley">>

\* C18: for every team name getTeamVariations returns a non-empty list that
\* contains the name, and for a name the table does not map exactly the
\* list of that name.
C18_VariationsContainInput ==
  (last.op = "variations")
    => /\ VariationsAsStated(last.homeTeam, last.homeVariations)
       /\ VariationsAsStated(last.awayTeam, last.awayVariations)

\* C20: for every pair of names full-names is among the strategies of the
\* pair exactly when the first variation of at least one of the two names
\* differs from the name supplied, and then it searches the two first
\* variations, right after exact.
C20_FullNamesIffPreferredDiffers ==
  (last.op = "variations")
    => LET differs == \/ At(last.homeVariations, 0) # last.homeTeam
                      \/ At(last.awayVariations, 0) # last.awayTeam
           names == {last.strategies[i].name : i \in 1..Len(last.strategies)}
       IN /\ ("full-names" \in names) <=> differs
          /\ differs
               => /\ last.strategies[2].name = "full-names"
                  /\ last.strategies[2].query =
                       Quoted(At(last.homeVariations, 0), At(last.awayVariations, 0))

\* the strategy names of a pair, in the order of the handler
StrategyNames(strategies) == [i \in 1..Len(strategies) |-> strategies[i].name]

\* the position of unquoted among the strategies of a pair
UnquotedAt(strategies) ==
  CHOOSE k \in 1..Len(strategies) : strategies[k].name = "unquoted"

\* the i-th variant of a list (i counted from 0), or its first one
VariantOrPreferred(variations, i) ==
  IF i + 1 <= Len(variations) THEN variations[i + 1] ELSE At(variations, 0)

C22_NoCoalescingLastWriteWins ==
  [][/\ \A k \in RequestKeys :
          (CalledOn(k) /\ ~isCacheValid(k))
            => /\ last'.op = "miss"
               /\ InFlightFor(inflight', k) = InFlightFor(inflight, k) + 1
     /\ (last'.op = "fetched")
          => /\ cache'[last'.key].data = last'.body
             /\ cache'[last'.key].timestamp = now'
     /\ (/\ last'.op = "teamRequest"
         /\ guardianApiKey
         /\ ~GuardianHit(guardianArticles, last'.entered[1].cacheKey, now))
          => /\ last'.entered[1].source = "provider"
             /\ Cardinality(Waiting(searches')) >= 1
             /\ BagCardinality(searches') = BagCardinality(searches) + 1
     /\ (/\ last'.op = "teamResponse"
         /\ last'.resolved[1].outcome = "ok"
         /\ last'.resolved[1].result # None)
          => LET key == SearchCacheKey(last'.resolved[1].query, TeamOptionsJson)
             IN /\ key \in DOMAIN guardianArticles'
                /\ guardianArticles'[key].data = last'.resolved[1].result[1]
                /\ \E s \in Waiting(searches) :
                     /\ Entered(s).cacheKey = key
                     /\ searches' = searches (-) SetToBag({s})
                     /\ guardianArticles'[key].timestamp = s.startedAt]_vars

\* C22 witness: a second request missed on a key while the call of the
\* first was in flight, and two calls for that key are in flight.
C22_Witness ==
  /\ last.op = "miss"
  /\ InFlightFor(inflight, last.key) = 2

(***************************************************************************)
(* C23: the ttl of every pre-registered entry is, in every reachable       *)
(* state, the ttl of the cache configuration: no fetch, hit, failure or    *)
(* clear changes it, and a clear changes only data and timestamp of those  *)
(* entries.                                                                *)
(***************************************************************************)
C23_NamedTtlNeverChanges ==
  [][/\ \A k \in NamedKeys :
          /\ k \in DOMAIN cache'
          /\ cache[k].ttl = NamedTtl(k)
          /\ cache'[k].ttl = NamedTtl(k)
     /\ (last'.op = "clear") =>
          \A k \in NamedKeys :
            cache'[k] = [cache[k] EXCEPT !.data = "null", !.timestamp = NullTs]
     /\ (last'.op \in {"hit", "miss", "failed", "tick"}) =>
          \A k \in NamedKeys : cache'[k] = cache[k]]_vars

\* a clear has just reset a pre-registered entry that held a fetched value
C23_Witness ==
  /\ last.op = "clear"
  /\ "standings" \in last.reset
  /\ cache["standings"] =
       [data |-> "null", timestamp |-> NullTs, ttl |-> NamedTtl("standings")]

(***************************************************************************)
(* C24: the slot of a head-to-head key is created only by the store of its *)
(* first successful fetch, with a ttl of 5 minutes; while the key has no   *)
(* slot its validity is false; and from the store on, a request for the    *)
(* key made less than 5 minutes after it is served from the cache.         *)
(***************************************************************************)
C24_DynamicSlotCreatedOnFirstSuccess ==
  [][\A k \in Head2HeadKeys :
       /\ (k \notin DOMAIN cache) => ~isCacheValid(k)
       /\ (k \notin DOMAIN cache /\ k \in DOMAIN cache')
            => /\ last'.op = "fetched"
               /\ last'.key = k
               /\ cache'[k] = [data |-> last'.body, timestamp |-> now,
                               ttl |-> DefaultTtl]
       /\ (last'.op = "fetched" /\ last'.key = k) => k \in DOMAIN cache'
       /\ (k \in DOMAIN cache) => cache[k].ttl = 300000
       /\ (StoredWithinTtl(k) /\ CalledOn(k))
            => /\ last'.op = "hit"
               /\ last'.body = cache[k].data
               /\ inflight' = inflight]_vars

(***************************************************************************)
(* C25: in both caches the timestamp stored with a fetched result is the   *)
(* time of the store, the time at which the upstream response has arrived, *)
(* so that the entry is valid for its whole ttl from the store.            *)
(***************************************************************************)
C25_TimestampIsTimeOfStore ==
  [][/\ (last'.op = "fetched")
          => /\ cache'[last'.key].timestamp = now'
             /\ (Truthy(last'.body) => isCacheValidAt(cache', last'.key, now'))
     /\ \A k \in DOMAIN guardianArticles' :
          (k \notin DOMAIN guardianArticles \/ guardianArticles'[k] # guardianArticles[k])
            => /\ guardianArticles'[k].timestamp = now'
               /\ GuardianHit(guardianArticles', k, now')]_vars

(***************************************************************************)
(* C26: every successful answer of getCachedOrFetch to a head-to-head      *)
(* request (matchId, limit), fetched or served from the per-match cache    *)
(* entry, is the payload the provider gave for that matchId and that       *)
(* limit.                                                                  *)
(***************************************************************************)
C26_Head2HeadPayloadFetchedWithRequestLimit ==
  [][(last'.op \in {"hit", "fetched"} /\ last'.key \in Head2HeadKeys)
       => last'.body = PayloadOf(last'.endpoint)]_vars

(***************************************************************************)
(* C27: every payload GET /api/standings/last or GET /api/matches/last     *)
(* returns, fetched or served from cache, is the provider's payload for    *)
(* the season year the rule gives for the date of the request: two years   *)
(* back before August, one year back from August on.                       *)
(***************************************************************************)
C27_LastSeasonPayloadOfRequestDate ==
  [][(last'.op \in {"hit", "fetched"} /\ last'.key \in {"standingsLast", "matchesLast"})
       => LET requestedAt == IF last'.op = "hit" THEN now' ELSE last'.issuedAt
              season == IF CalendarMonth(requestedAt) < 7
                          THEN CalendarYear(requestedAt) - 2
                          ELSE CalendarYear(requestedAt) - 1
              resource == IF last'.key = "standingsLast"
                            THEN "standings" ELSE "matches"
          IN last'.body = PayloadOf("/competitions/PL/" \o resource
                                      \o "?season=" \o ToString(season))]_vars

(***************************************************************************)
(* C28: a fetch that was in flight when POST /api/cache/clear ran never    *)
(* repopulates an entry: the calls awaiting their answer in the state a    *)
(* clear leaves were all issued before it, and the answer of none of them  *)
(* is stored in a named entry, a head-to-head slot or an article-search    *)
(* entry, so that what the cache serves after a clear comes from calls     *)
(* issued after it.                                                        *)
(***************************************************************************)
C28_InFlightFetchNeverRepopulatesAfterClear ==
  [][(last.op = "clear" /\ last'.op # "clear")
       => /\ \A k \in DOMAIN cache' :
               /\ k \in DOMAIN cache
               /\ cache'[k] = cache[k]
          /\ guardianArticles' = guardianArticles]_vars

(***************************************************************************)
(* C29: the stored value of a key is never replaced by the result of an    *)
(* upstream call issued earlier than the call that produced the value it   *)
(* replaces: of two fetches of a key stored one after the other, the       *)
(* second was issued no earlier than the first, and an article-search      *)
(* entry (stamped with the time its call began) is never replaced by one   *)
(* whose call began earlier.                                               *)
(***************************************************************************)
C29_OlderCallNeverOverwritesNewer ==
  [][/\ (last.op = "fetched" /\ last'.op = "fetched" /\ last'.key = last.key)
          => last'.issuedAt >= last.issuedAt
     /\ \A k \in DOMAIN guardianArticles \cap DOMAIN guardianArticles' :
          guardianArticles'[k].timestamp >= guardianArticles[k].timestamp]_vars

(***************************************************************************)
(* C30: every match-article request ends: it gets its one response, after  *)
(* at most 3 + (L - 1) calls of searchGuardianArticles, L being the length *)
(* of the longer of the two teams' variation lists, and after at most 5    *)
(* with the built-in table, whatever the provider answers to each call.    *)
(* The calls of a request are numbered by idx: the first is call 1 and     *)
(* each later one follows a call that found nothing, one number up.        *)
(***************************************************************************)
LongerList ==
  MaxOf(Len(getTeamVariations(fixture[1])), Len(getTeamVariations(fixture[2])))

C30_MatchSearchTerminatesWithinBound ==
  /\ [][/\ \A s \in BagToSet(searches') :
             /\ s.idx >= 1
             /\ s.idx <= 3 + (LongerList - 1)
             /\ s.idx <= 5
        /\ (last'.op = "matchRequest")
             => /\ \E s \in BagToSet(searches') :
                     s.idx = 1 /\ searches' = searches (+) SetToBag({s})
                /\ last'.response = None
        /\ (last'.op = "matchSearch")
             => /\ \E s \in BagToSet(searches), n \in BagToSet(searches') :
                     /\ n.idx = s.idx + 1
                     /\ searches' = (searches (-) SetToBag({s})) (+) SetToBag({n})
                /\ last'.response = None
        /\ (last'.op = "matchResponse")
             => /\ \E s \in BagToSet(searches) :
                     searches' = searches (-) SetToBag({s})
                /\ last'.response # None]_vars
  /\ (searches # EmptyBag) ~> (last.op = "matchResponse" /\ searches = EmptyBag)

\* C30 witness: a request for a fixture with three variations per team got
\* its response after its fifth call found nothing.
C30_Witness ==
  /\ fixture = <<"Man City", "Man Utd", "report">>
  /\ last.op = "matchResponse"
  /\ last.resolved[1].strategy = "variation-2"
  /\ last.response[1].searchStrategy = "none"
  /\ searches = EmptyBag

(***************************************************************************)
(* C31: within one match-article request no query is sent to the news      *)
(* provider twice: a request that waits for the provider's answer to the   *)
(* query of its current strategy has sent that query for none of its       *)
(* earlier strategies (with no clear and no expiry in between, an earlier  *)
(* strategy with the same query that was answered from the cache or        *)
(* without credential would leave the current one answered the same way).  *)
(***************************************************************************)
C31_NoQuerySentTwiceInOneSearch ==
  \A s \in BagToSet(searches) :
    s.wait => \A j \in 1..(s.idx - 1) : s.plan[j].query # s.plan[s.idx].query

=========================================================================
